---- MODULE Spec2Model ----
(***************************************************************************)
(* Hello Client (src/hello_client.c): connection bookkeeping, the relay of *)
(* sensor data to the remote central and the GATT write handler.           *)
(*                                                                         *)
(* Each handler of the application is one action.  The commands a handler  *)
(* hands to the stack are recorded in cmds, the event it handled in ev.    *)
(* Roles are the stack's: CENTRAL_ROLE is a link on which this device is   *)
(* the central (an outgoing link to a sensor), PERIPHERAL_ROLE is the link *)
(* on which this device is the peripheral (the link to the remote central).*)
(***************************************************************************)
EXTENDS Integers, Sequences, FiniteSets

VARIABLES
    app_config,         \* hello_client.app_config
    handle_to_central,  \* hello_client.handle_to_central (UINT8)
    num_peripherals,    \* hello_client.num_peripherals (UINT8)
    dev_info,           \* hello_client.dev_info[i].role
    smp_info,           \* hello_client.smp_info[i].smpRole
    hostinfo,           \* hello_client.hostinfo
    conmux,             \* the stack's connection multiplexer: index -> handle
    nvram,              \* the record stored under NVRAM_ID_HOST_LIST
    app_timer_count,    \* hello_client.app_timer_count (UINT32)
    button_pushed_time, \* static button_pushed_time of the interrupt handler
    pressed_at,         \* the button: tick of the press no release has followed
    blecen_conn,        \* the central role's connect state, as blecen_GetConn() returns it
    adv_ptr,            \* ptr - data of the parse loop of hello_client_advertisement_report
                        \* while the loop runs
    ev,                 \* the event the last handler processed
    cm_found,           \* cm_index as the handler's lookup of the handle set it
    cmds,               \* the commands the last handler issued, in order
    ret                 \* the value the last handler returned

vars == <<app_config, handle_to_central, num_peripherals, dev_info, smp_info,
          hostinfo, conmux, nvram, app_timer_count, button_pushed_time,
          pressed_at, blecen_conn, adv_ptr, ev, cm_found, cmds, ret>>

----------------------------------------------------------------------------
(* Program constants *)

HELLO_CLIENT_MAX_PERIPHERALS == 4
RMULP_CONN_HANDLE_START == 64
CENTRAL_ROLE == 0
PERIPHERAL_ROLE == 1
CONNECT_HELLO_SENSOR == 2
SMP_PAIRING == 4
SMP_ERASE_KEY == 8
HANDLE_HELLO_CLIENT_SERVICE_UUID == 40
HANDLE_HELLO_CLIENT_DATA_VALUE == 42
HANDLE_HELLO_CLIENT_CLIENT_CONFIGURATION_DESCRIPTOR == 43
NVRAM_ID_HOST_LIST == 16
RelayLimit == 20
WriteNotPermitted == 128

\* the bits of the client configuration descriptor and the SMP roles of the stack
CCC_NOTIFICATION == 1
CCC_INDICATION == 2
LESMP_ROLE_INITIATOR == "LESMP_ROLE_INITIATOR"
LESMP_ROLE_RESPONDERS == "LESMP_ROLE_RESPONDERS"
ZeroedSmpRole == "zeroed"

\* hello_client_cfg.encr_required = SECURITY_ENABLED | SECURITY_REQUEST
encr_required == TRUE

----------------------------------------------------------------------------
(* Bounds of the model *)

NumHandles == 3          \* connection handles of the slot specification
NumSensors == 4          \* sensors of the deployment specification
MaxDrift == 1            \* num_peripherals is followed this far outside 0..4
MaxPayloadLen == 25      \* longest payload a sensor sends

Handles == RMULP_CONN_HANDLE_START .. (RMULP_CONN_HANDLE_START + NumHandles - 1)

\* the deployment: one remote central and NumSensors sensors, each on its own handle
CentralLink == RMULP_CONN_HANDLE_START
SensorLinks == (RMULP_CONN_HANDLE_START + 1) .. (RMULP_CONN_HANDLE_START + NumSensors)

\* the links of the full specification: the remote central and one sensor
RelayLinks == {CentralLink, CentralLink + 1}
RoleOfLink(h) == IF h = CentralLink THEN PERIPHERAL_ROLE ELSE CENTRAL_ROLE

Roles == {CENTRAL_ROLE, PERIPHERAL_ROLE}
MuxIndex == 0 .. (HELLO_CLIENT_MAX_PERIPHERALS - 1)
NoHandle == -1

UINT8(n) == n % 256
UINT16(n) == n % 65536

InWindow(n) == n <= HELLO_CLIENT_MAX_PERIPHERALS + MaxDrift \/ n >= 256 - MaxDrift

Min(a, b) == IF a < b THEN a ELSE b

BitSet(value, mask) == (value \div mask) % 2 = 1

----------------------------------------------------------------------------
(* Events and commands *)

Event(type, handle, role, attr, data) ==
    [type |-> type, handle |-> handle, role |-> role, attr |-> attr, data |-> data]

Cmd(op, conn, attr, data) ==
    [op |-> op, conn |-> conn, attr |-> attr, data |-> data]

NoEvent == Event("create", 0, 0, 0, <<>>)

----------------------------------------------------------------------------
(* The connection multiplexer of the stack (blecm_*ConMux) *)

\* blecm_FindConMux: the index that holds con_handle, -1 when there is none
blecm_FindConMux(mux, con_handle) ==
    IF \E i \in MuxIndex : mux[i] = con_handle
    THEN CHOOSE i \in MuxIndex :
            /\ mux[i] = con_handle
            /\ \A j \in MuxIndex : mux[j] = con_handle => i <= j
    ELSE -1

\* blecm_FindFreeConMux: the first free index, -1 when the table is full
blecm_FindFreeConMux(mux) == blecm_FindConMux(mux, NoHandle)

\* blecm_DelConMux: frees an index
blecm_DelConMux(mux, i) == [mux EXCEPT ![i] = NoHandle]

\* blecm_AddConMux: binds an index to a connection handle
blecm_AddConMux(mux, i, con_handle) == [mux EXCEPT ![i] = con_handle]

----------------------------------------------------------------------------
(* hello_client_create: the state after initialisation *)

AppConfigReference == CONNECT_HELLO_SENSOR + SMP_PAIRING

\* the button has not been pressed, or was released since
NoPress == -1

\* the value of adv_ptr outside the parse loop
NoPtr == -1

ZeroHostInfo == [bdaddr |-> <<0, 0, 0, 0, 0, 0>>, characteristic_client_configuration |-> 0]

hello_client_create(config) ==
    /\ app_config = config
    /\ handle_to_central = 0
    /\ num_peripherals = 0
    /\ dev_info = [i \in MuxIndex |-> [role |-> 0]]
    /\ smp_info = [i \in MuxIndex |-> [smpRole |-> ZeroedSmpRole]]
    /\ hostinfo = ZeroHostInfo
    /\ conmux = [i \in MuxIndex |-> NoHandle]
    /\ nvram = <<>>
    /\ app_timer_count = 0
    /\ button_pushed_time = 0
    /\ pressed_at = NoPress
    /\ blecen_conn = "NO_CONN"
    /\ adv_ptr = NoPtr
    /\ ev = NoEvent
    /\ cm_found = -1
    /\ cmds = << Cmd("set_scan_off", 0, 0, <<>>),
                 Cmd("set_advertise_discoverable", 0, 0, <<>>) >>
    /\ ret = 0

Init == hello_client_create(AppConfigReference)

----------------------------------------------------------------------------
(* The connect state of the stack's central role (blecen) *)

\* blecen_Conn(mode, ...) starts (HIGH_CONN, LOW_CONN) or cancels (NO_CONN)
\* a connect attempt; blecen_GetConn() returns the mode set last
blecen_Conn(mode) == mode

\* the attempt is over once the outgoing link is up
ConnAfterLinkUp(conn, role) == IF role = CENTRAL_ROLE THEN "NO_CONN" ELSE conn

\* blecen_GetConn() == HIGH_CONN || blecen_GetConn() == LOW_CONN
ConnPending(conn) == conn = "HIGH_CONN" \/ conn = "LOW_CONN"

----------------------------------------------------------------------------
(* hello_client_connection_up *)

StaleKept(mux, con_handle) == mux

\* "delete index first": a slot that already maps con_handle is freed
StaleFreed(mux, con_handle) ==
    IF blecm_FindConMux(mux, con_handle) >= 0
    THEN blecm_DelConMux(mux, blecm_FindConMux(mux, con_handle))
    ELSE mux

UpFullCounted(con_handle, role) ==
    /\ cmds' = << Cmd("disconnect", con_handle, 0, <<>>) >>
    /\ conmux' = StaleFreed(conmux, con_handle)
    /\ num_peripherals' = IF role = CENTRAL_ROLE
                          THEN UINT8(num_peripherals + 1) ELSE num_peripherals
    /\ UNCHANGED <<app_config, handle_to_central, dev_info, smp_info, hostinfo, nvram>>

\* no free index: the link is disconnected and the handler returns
UpFull(con_handle, role) ==
    /\ cmds' = << Cmd("disconnect", con_handle, 0, <<>>) >>
    /\ conmux' = StaleFreed(conmux, con_handle)
    /\ UNCHANGED <<app_config, handle_to_central, num_peripherals, dev_info,
                   smp_info, hostinfo, nvram>>

\* the role branch of a build that asks for no encryption
UpRoleCmdsUnencrypted(con_handle, role) ==
    IF role = CENTRAL_ROLE
    THEN << Cmd("write_req", con_handle, 0, <<1, 0>>) >>
    ELSE << Cmd("conn_param_update", con_handle, 0, <<>>) >>

\* the commands of the role branch
UpRoleCmds(con_handle, role) ==
    IF role = CENTRAL_ROLE
    THEN IF ~encr_required
         THEN << Cmd("write_req", con_handle, 0, <<1, 0>>) >>
         ELSE << Cmd("start_pairing", con_handle, 0, <<>>) >>
    ELSE << Cmd("conn_param_update", con_handle, 0, <<>>) >>

\* "count number of peripheral connections"
UpCount(n, role) == IF role = CENTRAL_ROLE THEN UINT8(n + 1) ELSE n

\* the handle of the link to the central, stored in a UINT8
UpHandleToCentral(h2c, con_handle, role) ==
    IF role = CENTRAL_ROLE THEN h2c ELSE UINT8(con_handle)

\* "if we are not connected to all peripherals restart the scan"
UpTailCmds(n, h2c) ==
    IF n < HELLO_CLIENT_MAX_PERIPHERALS /\ h2c = 0
    THEN << Cmd("adv_during_conn_enable", 0, 0, <<>>),
            Cmd("set_advertise_discoverable", 0, 0, <<>>) >>
    ELSE << >>

UpAccept(con_handle, role, cm_index) ==
    /\ dev_info' = [dev_info EXCEPT ![cm_index] = [role |-> role]]
    /\ smp_info' = [smp_info EXCEPT ![cm_index] =
                        [smpRole |-> IF role = CENTRAL_ROLE
                                     THEN LESMP_ROLE_INITIATOR
                                     ELSE LESMP_ROLE_RESPONDERS]]
    /\ conmux' = blecm_AddConMux(StaleFreed(conmux, con_handle), cm_index, con_handle)
    /\ num_peripherals' = UpCount(num_peripherals, role)
    /\ handle_to_central' = UpHandleToCentral(handle_to_central, con_handle, role)
    /\ cmds' = UpRoleCmds(con_handle, role)
                 \o UpTailCmds(num_peripherals', handle_to_central')
    /\ UNCHANGED <<app_config, hostinfo, nvram>>

ConnectionUp(con_handle, role) ==
    LET cm_index == blecm_FindFreeConMux(StaleFreed(conmux, con_handle))
    IN  /\ ev' = Event("connection_up", con_handle, role, 0, <<>>)
        /\ cm_found' = blecm_FindConMux(conmux, con_handle)
        /\ ret' = 0
        /\ IF cm_index < 0
           THEN UpFull(con_handle, role)
           ELSE UpAccept(con_handle, role, cm_index)
        /\ InWindow(num_peripherals')
        /\ blecen_conn' = ConnAfterLinkUp(blecen_conn, role)
        /\ UNCHANGED <<app_timer_count, button_pushed_time, pressed_at, adv_ptr>>

----------------------------------------------------------------------------
(* hello_client_connection_down *)

DownNotFoundErased(con_handle) ==
    /\ cmds' = IF BitSet(app_config, SMP_ERASE_KEY)
               THEN << Cmd("erase_all_bonds", 0, 0, <<>>) >> ELSE << >>
    /\ UNCHANGED <<app_config, handle_to_central, num_peripherals, dev_info,
                   smp_info, hostinfo, conmux, nvram>>

\* "Can't find such connection": the handler returns at once
DownNotFound(con_handle) ==
    /\ cmds' = << >>
    /\ UNCHANGED <<app_config, handle_to_central, num_peripherals, dev_info,
                   smp_info, hostinfo, conmux, nvram>>

\* a connection_down that erases the bonds whatever the flag
DownEraseCmdsAlways(config) == << Cmd("erase_all_bonds", 0, 0, <<>>) >>

DownEraseCmds(config) ==
    IF BitSet(config, SMP_ERASE_KEY)
    THEN << Cmd("erase_all_bonds", 0, 0, <<>>) >>
    ELSE << >>

\* a connection_down that makes the device discoverable again
DownRoleCmdsAdvertising(role) ==
    IF role = PERIPHERAL_ROLE
    THEN << Cmd("adv_during_conn_enable", 0, 0, <<>>) >>
    ELSE << Cmd("client_handle_reset", 0, 0, <<>>),
            Cmd("blecen_connDown", 0, 0, <<>>),
            Cmd("set_advertise_discoverable", 0, 0, <<>>) >>

DownRoleCmds(role) ==
    IF role = PERIPHERAL_ROLE
    THEN << Cmd("adv_during_conn_enable", 0, 0, <<>>) >>
    ELSE << Cmd("client_handle_reset", 0, 0, <<>>),
            Cmd("blecen_connDown", 0, 0, <<>>) >>

DownHandleToCentral(h2c, role) == IF role = PERIPHERAL_ROLE THEN 0 ELSE h2c

\* "count number of peripheral connections": decremented on every link down
DownCount(n, role) == UINT8(n - 1)

DownTailCmds(n) ==
    IF n < HELLO_CLIENT_MAX_PERIPHERALS
    THEN << Cmd("set_scan_low", 0, 0, <<>>) >>
    ELSE << >>

DownFound(con_handle, cm_index) ==
    LET role == dev_info[cm_index].role
    IN  /\ handle_to_central' = DownHandleToCentral(handle_to_central, role)
        /\ dev_info' = [dev_info EXCEPT ![cm_index] = [role |-> 0]]
        /\ smp_info' = [smp_info EXCEPT ![cm_index] = [smpRole |-> ZeroedSmpRole]]
        /\ num_peripherals' = DownCount(num_peripherals, role)
        /\ conmux' = blecm_DelConMux(conmux, cm_index)
        /\ cmds' = DownEraseCmds(app_config) \o DownRoleCmds(role)
                     \o DownTailCmds(num_peripherals')
        /\ UNCHANGED <<app_config, hostinfo, nvram>>

ConnectionDown(con_handle) ==
    LET cm_index == blecm_FindConMux(conmux, con_handle)
    IN  /\ ev' = Event("connection_down", con_handle, 0, 0, <<>>)
        /\ cm_found' = cm_index
        /\ ret' = 0
        /\ IF cm_index < 0
           THEN DownNotFound(con_handle)
           ELSE DownFound(con_handle, cm_index)
        /\ InWindow(num_peripherals')
        /\ UNCHANGED <<app_timer_count, button_pushed_time, pressed_at, blecen_conn, adv_ptr>>

----------------------------------------------------------------------------
(* Specifications of the connection events alone *)

\* any role on any of NumHandles handles, in any order
NextSlots ==
    \/ \E h \in Handles : \E r \in Roles : ConnectionUp(h, r)
    \/ \E h \in Handles : ConnectionDown(h)

SpecSlots == Init /\ [][NextSlots]_vars

\* one remote central and NumSensors sensors; a link may come up again
\* before its connection_down was delivered
NextDeployment ==
    \/ \E h \in {CentralLink} \cup SensorLinks : ConnectionUp(h, RoleOfLink(h))
    \/ \E h \in {CentralLink} \cup SensorLinks : ConnectionDown(h)

SpecDeployment == Init /\ [][NextDeployment]_vars

\* the deployment with the erase-key policy chosen at build time
AppConfigs == {AppConfigReference, AppConfigReference + SMP_ERASE_KEY}

InitPolicy == \E config \in AppConfigs : hello_client_create(config)

SpecPolicy == InitPolicy /\ [][NextDeployment]_vars

----------------------------------------------------------------------------
(* Slots as the handlers see them *)

Occupied(i) == conmux[i] # NoHandle

\* occupied slots of outgoing links to sensors (this device is the central)
SensorSlots == {i \in MuxIndex : Occupied(i) /\ dev_info[i].role = CENTRAL_ROLE}

\* occupied slots of links to a remote central (this device is the peripheral)
CentralSlots == {i \in MuxIndex : Occupied(i) /\ dev_info[i].role = PERIPHERAL_ROLE}

----------------------------------------------------------------------------
(* hello_client_process_data_from_peripheral and its two callers *)

Payload(len) == [i \in 1 .. len |-> UINT8(i)]

PayloadLens == {0, RelayLimit - 1, RelayLimit, RelayLimit + 1, MaxPayloadLen}

RelayLenUncut(len) == len

\* len < 20 ? len : 20
RelayLen(len) == IF len < RelayLimit THEN len ELSE RelayLimit

\* the relay with the two tests of the configuration swapped
RelayIndicationPreferred(data) ==
    IF BitSet(hostinfo.characteristic_client_configuration, CCC_INDICATION)
    THEN << Cmd("send_indication", handle_to_central, HANDLE_HELLO_CLIENT_DATA_VALUE,
                SubSeq(data, 1, RelayLen(Len(data)))) >>
    ELSE IF BitSet(hostinfo.characteristic_client_configuration, CCC_NOTIFICATION)
         THEN << Cmd("send_notification", handle_to_central, HANDLE_HELLO_CLIENT_DATA_VALUE,
                     SubSeq(data, 1, RelayLen(Len(data)))) >>
         ELSE << >>

\* blecm_SetPtrConMux then bleprofile_sendNotification / sendIndication
hello_client_process_data_from_peripheral(data) ==
    IF BitSet(hostinfo.characteristic_client_configuration, CCC_NOTIFICATION)
    THEN << Cmd("send_notification", handle_to_central, HANDLE_HELLO_CLIENT_DATA_VALUE,
                SubSeq(data, 1, RelayLen(Len(data)))) >>
    ELSE IF BitSet(hostinfo.characteristic_client_configuration, CCC_INDICATION)
         THEN << Cmd("send_indication", handle_to_central, HANDLE_HELLO_CLIENT_DATA_VALUE,
                     SubSeq(data, 1, RelayLen(Len(data)))) >>
         ELSE << >>

\* the connection the stack's context points at once the relay has run:
\* blecm_SetPtrConMux moves it to the central's link when that link has a slot
ContextAfterRelay(source) ==
    IF /\ \/ BitSet(hostinfo.characteristic_client_configuration, CCC_NOTIFICATION)
          \/ BitSet(hostinfo.characteristic_client_configuration, CCC_INDICATION)
       /\ blecm_FindConMux(conmux, handle_to_central) >= 0
    THEN handle_to_central
    ELSE source

NotificationHandler(source, data) ==
    /\ ev' = Event("notification_received", source, CENTRAL_ROLE, 0, data)
    /\ cm_found' = -1
    /\ cmds' = hello_client_process_data_from_peripheral(data)
    /\ ret' = 0
    /\ UNCHANGED <<app_config, handle_to_central, num_peripherals, dev_info,
                   smp_info, hostinfo, conmux, nvram, app_timer_count,
                   button_pushed_time, pressed_at, blecen_conn, adv_ptr>>

IndicationHandler(source, data) ==
    /\ ev' = Event("indication_received", source, CENTRAL_ROLE, 0, data)
    /\ cm_found' = -1
    /\ cmds' = hello_client_process_data_from_peripheral(data)
                 \o << Cmd("send_confirmation", ContextAfterRelay(source), 0, <<>>) >>
    /\ ret' = 0
    /\ UNCHANGED <<app_config, handle_to_central, num_peripherals, dev_info,
                   smp_info, hostinfo, conmux, nvram, app_timer_count,
                   button_pushed_time, pressed_at, blecen_conn, adv_ptr>>

----------------------------------------------------------------------------
(* hello_client_write_handler *)

\* the bytes of the packed HOSTINFO structure, little-endian
HostInfoBytes(h) ==
    h.bdaddr \o << h.characteristic_client_configuration % 256,
                   h.characteristic_client_configuration \div 256 >>

WritePayloads ==
    { << >>, <<0, 0>>, <<1, 0>>, <<2, 0>>, <<3, 0>>, <<0, 1>>, <<1>>, <<1, 0, 0>> }

WriteAttrs == { HANDLE_HELLO_CLIENT_SERVICE_UUID, HANDLE_HELLO_CLIENT_DATA_VALUE,
                HANDLE_HELLO_CLIENT_CLIENT_CONFIGURATION_DESCRIPTOR }

\* the first test with the length left unchecked below the two bytes read
WriteIsConfigurationAnyLen(handle, attr) ==
    Len(attr) >= 2 /\ handle = HANDLE_HELLO_CLIENT_CLIENT_CONFIGURATION_DESCRIPTOR

\* len == 2 && handle == HANDLE_HELLO_CLIENT_CLIENT_CONFIGURATION_DESCRIPTOR
WriteIsConfiguration(handle, attr) ==
    Len(attr) = 2 /\ handle = HANDLE_HELLO_CLIENT_CLIENT_CONFIGURATION_DESCRIPTOR

\* the configuration taken from the low byte only
WriteConfigurationLowByte(attr) == attr[1]

\* attrPtr[0] + (attrPtr[1] << 8)
WriteConfiguration(attr) == UINT16(attr[1] + attr[2] * 256)

\* a handler that accepts every attribute
WriteReturnAccepted(handle) == 0

\* the result of a write that is not a configuration write
WriteReturn(handle) ==
    IF handle = HANDLE_HELLO_CLIENT_DATA_VALUE THEN 0 ELSE WriteNotPermitted

\* a handler that calls bleprofile_WriteNVRAM a second time
WritePersistCmdsRetried(record) ==
    << Cmd("persist", 0, NVRAM_ID_HOST_LIST, record),
       Cmd("persist", 0, NVRAM_ID_HOST_LIST, record) >>

\* bleprofile_WriteNVRAM(NVRAM_ID_HOST_LIST, sizeof(hostinfo), &hostinfo)
WritePersistCmds(record) == << Cmd("persist", 0, NVRAM_ID_HOST_LIST, record) >>

\* written is FALSE when bleprofile_WriteNVRAM stores nothing
WriteHandler(handle, attr, written) ==
    /\ ev' = Event("write_received", 0, 0, handle, attr)
    /\ cm_found' = -1
    /\ IF WriteIsConfiguration(handle, attr)
       THEN /\ hostinfo' = [hostinfo EXCEPT !.characteristic_client_configuration =
                                WriteConfiguration(attr)]
            /\ cmds' = WritePersistCmds(HostInfoBytes(hostinfo'))
            /\ nvram' = IF written THEN HostInfoBytes(hostinfo') ELSE nvram
            /\ ret' = 0
       ELSE /\ cmds' = << >>
            /\ ret' = WriteReturn(handle)
            /\ UNCHANGED <<hostinfo, nvram>>
    /\ UNCHANGED <<app_config, handle_to_central, num_peripherals, dev_info,
                   smp_info, conmux, app_timer_count, button_pushed_time, pressed_at, blecen_conn, adv_ptr>>

----------------------------------------------------------------------------
(* hello_client_advertisement_report *)

\* size of HCIULP_ADV_PACKET_REPORT_WDATA.data
HCIULP_MAX_DATA_LENGTH == 31

\* advertisement field type: complete list of 128-bit service UUIDs
ADV_SERVICE_UUID128_COMP == 7

\* const UINT8 hello_service[16] = {UUID_HELLO_SERVICE}
hello_service == <<35, 32, 86, 124, 5, 207, 110, 180, 195, 65, 119, 40, 81, 130, 126, 27>>

\* the field test without the comparison of the 16 bytes
AdvFieldMatchesAnyService(data, ptr, oob) ==
    /\ data[ptr + 1] = 16 + 1
    /\ IF ptr + 1 < Len(data) THEN data[ptr + 2] = ADV_SERVICE_UUID128_COMP ELSE oob

\* p_field->len == 16 + 1 && p_field->val == ADV_SERVICE_UUID128_COMP &&
\* memcmp(p_field->data, hello_service, 16) == 0, for the field at offset
\* ptr of evt->data.  The test does not look at dataLen; a byte it reads
\* behind the end of evt->data is whatever the memory holds there: oob says
\* whether those bytes compare equal.
AdvFieldMatches(data, ptr, oob) ==
    /\ data[ptr + 1] = 16 + 1
    /\ IF ptr + 1 < Len(data) THEN data[ptr + 2] = ADV_SERVICE_UUID128_COMP ELSE oob
    /\ \A k \in 1 .. 16 :
          IF ptr + 1 + k < Len(data) THEN data[ptr + 2 + k] = hello_service[k] ELSE oob

\* a step that leaves the length byte itself out
AdvNextPtrDataOnly(data, ptr) == ptr + data[ptr + 1]

\* ptr += (p_field->len + 1): ptr is a pointer, the sum does not wrap
AdvNextPtr(data, ptr) == ptr + data[ptr + 1] + 1

\* ptr >= data + dataLen
AdvAtEnd(ptr, dataLen) == ptr >= dataLen

\* the while(1) loop: the field at ptr is tested first, then ptr moves on by
\* p_field->len + 1 and the loop ends once ptr >= data + dataLen
RECURSIVE AdvFindService(_, _, _, _)
AdvFindService(data, dataLen, ptr, oob) ==
    IF AdvFieldMatches(data, ptr, oob)
    THEN TRUE
    ELSE IF AdvAtEnd(AdvNextPtr(data, ptr), dataLen)
         THEN FALSE
         ELSE AdvFindService(data, dataLen, AdvNextPtr(data, ptr), oob)

\* bleprofile_Discoverable(NO_DISCOVERABLE), blecen_Conn(HIGH_CONN, wd_addr),
\* blecen_Scan(NO_SCAN)
AdvConnectCmds(peer) ==
    << Cmd("set_advertise_off", 0, 0, <<>>),
       Cmd("connect", peer, 0, <<>>),
       Cmd("set_scan_off", 0, 0, <<>>) >>

\* a length test that lets every report through
AdvTooLongNever(dataLen) == FALSE

\* dataLen > HCIULP_MAX_DATA_LENGTH
AdvTooLong(dataLen) == dataLen > HCIULP_MAX_DATA_LENGTH

AdvertisementReport(peer, report, oob) ==
    /\ ev' = Event("advertisement_report", peer, 0, report.dataLen, report.data)
    /\ cm_found' = -1
    /\ ret' = 0
    /\ cmds' = IF AdvTooLong(report.dataLen)
               THEN << >>
               ELSE << Cmd("blecen_leAdvReportCb", peer, 0, <<>>) >> \o
                    ( IF /\ BitSet(app_config, CONNECT_HELLO_SENSOR)
                         /\ AdvFindService(report.data, report.dataLen, 0, oob)
                      THEN AdvConnectCmds(peer)
                      ELSE << >> )
    /\ blecen_conn' = IF "connect" \in {cmds'[k].op : k \in 1 .. Len(cmds')}
                      THEN blecen_Conn("HIGH_CONN")
                      ELSE blecen_conn
    /\ UNCHANGED <<app_config, handle_to_central, num_peripherals, dev_info,
                   smp_info, hostinfo, conmux, nvram, app_timer_count,
                   button_pushed_time, pressed_at, adv_ptr>>

(* The reports the scanner delivers *)

\* evt->data is a buffer of HCIULP_MAX_DATA_LENGTH bytes; the bytes behind
\* the ones listed are zero
AdvReport(declared, bytes) ==
    [dataLen |-> declared,
     data |-> bytes \o [i \in 1 .. HCIULP_MAX_DATA_LENGTH - Len(bytes) |-> 0]]

FlagsField == <<2, 1, 6>>
HelloField == <<17, ADV_SERVICE_UUID128_COMP>> \o hello_service
\* the same field with another last / first byte of the UUID, and with the
\* type of an incomplete list
OtherLastField == <<17, ADV_SERVICE_UUID128_COMP>> \o [hello_service EXCEPT ![16] = 28]
OtherFirstField == <<17, ADV_SERVICE_UUID128_COMP>> \o [hello_service EXCEPT ![1] = 36]
IncompleteField == <<17, 6>> \o hello_service
\* a complete local name of n bytes in all
NameField(n) == <<n - 1, 9>> \o [i \in 1 .. n - 2 |-> 72]

AdvReports ==
    { AdvReport(21, FlagsField \o HelloField),
      AdvReport(18, HelloField),
      AdvReport(31, NameField(13) \o HelloField),
      AdvReport(20, <<0, 0>> \o HelloField),
      AdvReport(21, FlagsField \o OtherLastField),
      AdvReport(21, FlagsField \o OtherFirstField),
      AdvReport(21, FlagsField \o IncompleteField),
      AdvReport(22, <<21, 255, 0, 0>> \o HelloField),
      AdvReport(3, FlagsField),
      AdvReport(0, << >>),
      \* bytes of an earlier report behind the declared length
      AdvReport(0, HelloField),
      AdvReport(3, FlagsField \o HelloField),
      AdvReport(4, FlagsField \o HelloField),
      \* a field that starts inside the buffer and ends behind it
      AdvReport(31, NameField(14) \o SubSeq(HelloField, 1, 17)),
      AdvReport(32, FlagsField \o HelloField) }

\* addresses of advertising peers
AdvPeers == {1, 2}

\* the scanner and the connection events of one central and one sensor
NextScan ==
    \/ \E peer \in AdvPeers : \E report \in AdvReports : \E oob \in BOOLEAN :
          AdvertisementReport(peer, report, oob)
    \/ \E h \in RelayLinks : ConnectionUp(h, RoleOfLink(h))
    \/ \E h \in RelayLinks : ConnectionDown(h)

SpecScan == Init /\ [][NextScan]_vars

(* The parse loop of hello_client_advertisement_report, one iteration a step *)

\* the most fields a generated report is made of
MaxFields == 2

\* length bytes of the fields of the generated reports
AdvFieldLens == {0, 1, 2, 17, 30, 255}

\* a field with the length byte len: the type byte of a local name and
\* len - 1 bytes behind it, as far as the buffer can hold them
AdvField(len) ==
    IF len = 0
    THEN << 0 >>
    ELSE << len, 9 >> \o [i \in 1 .. Min(len - 1, HCIULP_MAX_DATA_LENGTH) |-> 72]

AdvGeneratedFields == {AdvField(len) : len \in AdvFieldLens} \cup {HelloField}

RECURSIVE AdvConcat(_)
AdvConcat(fields) ==
    IF fields = << >> THEN << >> ELSE Head(fields) \o AdvConcat(Tail(fields))

\* the bytes of up to MaxFields fields, cut to the size of evt->data
AdvFieldBytes ==
    { SubSeq(AdvConcat(fields), 1, Min(Len(AdvConcat(fields)), HCIULP_MAX_DATA_LENGTH)) :
        fields \in UNION {[1 .. n -> AdvGeneratedFields] : n \in 1 .. MaxFields} }

\* each of them with a declared length of 0, of the bytes, and of the buffer
AdvFieldReports ==
    UNION { {AdvReport(declared, bytes) :
                declared \in {0, Len(bytes), HCIULP_MAX_DATA_LENGTH}} :
            bytes \in AdvFieldBytes }

\* the handler down to the loop: the length test, blecen_leAdvReportCb, the
\* test of app_config, ptr = data
AdvLoopEnter(peer, report) ==
    /\ adv_ptr = NoPtr
    /\ ev' = Event("advertisement_report", peer, 0, report.dataLen, report.data)
    /\ cm_found' = -1
    /\ ret' = 0
    /\ cmds' = IF AdvTooLong(report.dataLen)
               THEN << >>
               ELSE << Cmd("blecen_leAdvReportCb", peer, 0, <<>>) >>
    /\ adv_ptr' = IF ~AdvTooLong(report.dataLen) /\ BitSet(app_config, CONNECT_HELLO_SENSOR)
                  THEN 0
                  ELSE NoPtr
    /\ UNCHANGED <<app_config, handle_to_central, num_peripherals, dev_info,
                   smp_info, hostinfo, conmux, nvram, app_timer_count,
                   button_pushed_time, pressed_at, blecen_conn>>

\* one iteration of while(1): the field test with its three calls and break,
\* else ptr += len + 1 and the test of the end
AdvLoopStep(oob) ==
    /\ adv_ptr # NoPtr
    /\ IF AdvFieldMatches(ev.data, adv_ptr, oob)
       THEN /\ cmds' = cmds \o AdvConnectCmds(ev.handle)
            /\ blecen_conn' = blecen_Conn("HIGH_CONN")
            /\ adv_ptr' = NoPtr
       ELSE /\ adv_ptr' = IF AdvAtEnd(AdvNextPtr(ev.data, adv_ptr), ev.attr)
                          THEN NoPtr
                          ELSE AdvNextPtr(ev.data, adv_ptr)
            /\ UNCHANGED <<cmds, blecen_conn>>
    /\ UNCHANGED <<app_config, handle_to_central, num_peripherals, dev_info,
                   smp_info, hostinfo, conmux, nvram, app_timer_count,
                   button_pushed_time, pressed_at, ev, cm_found, ret>>

NextParse ==
    \/ \E peer \in AdvPeers : \E report \in AdvReports \cup AdvFieldReports :
          AdvLoopEnter(peer, report)
    \/ \E oob \in BOOLEAN : AdvLoopStep(oob)

\* the handler runs on: a loop that can do an iteration does it
SpecParse ==
    Init /\ [][NextParse]_vars /\ WF_vars(\E oob \in BOOLEAN : AdvLoopStep(oob))

----------------------------------------------------------------------------
(* hello_client_timer_callback *)

TimerArgs == {"BLEAPP_APP_TIMER_SCAN", "BLEAPP_APP_TIMER_CONN"}

\* a timeout that falls back whatever blecen_GetConn() returns
TimerFallbackAlways(conn) == TRUE

\* the test of case BLEAPP_APP_TIMER_CONN
TimerFallback(conn) == ConnPending(conn)

\* blecen_Conn(NO_CONN), blecen_Scan(LOW_SCAN),
\* bleprofile_Discoverable(HIGH_UNDIRECTED_DISCOVERABLE)
TimerFallbackCmds ==
    << Cmd("cancel_connect", 0, 0, <<>>),
       Cmd("set_scan_low", 0, 0, <<>>),
       Cmd("set_advertise_discoverable", 0, 0, <<>>) >>

TimerCallback(arg) ==
    /\ ev' = Event("timer_callback", 0, 0, 0, << arg >>)
    /\ cm_found' = -1
    /\ ret' = 0
    /\ IF arg = "BLEAPP_APP_TIMER_SCAN"
       THEN /\ cmds' = << Cmd("set_scan_low", 0, 0, <<>>) >>
            /\ UNCHANGED blecen_conn
       ELSE IF TimerFallback(blecen_conn)
            THEN /\ cmds' = TimerFallbackCmds
                 /\ blecen_conn' = blecen_Conn("NO_CONN")
            ELSE /\ cmds' = << >>
                 /\ UNCHANGED blecen_conn
    /\ UNCHANGED <<app_config, handle_to_central, num_peripherals, dev_info,
                   smp_info, hostinfo, conmux, nvram, app_timer_count,
                   button_pushed_time, pressed_at, adv_ptr>>

\* the scanner, the connection events and the timeouts of the central role
NextConnect ==
    \/ \E peer \in AdvPeers : \E report \in AdvReports : \E oob \in BOOLEAN :
          AdvertisementReport(peer, report, oob)
    \/ \E h \in RelayLinks : ConnectionUp(h, RoleOfLink(h))
    \/ \E h \in RelayLinks : ConnectionDown(h)
    \/ \E arg \in TimerArgs : TimerCallback(arg)

\* the connection timeout the stack arms with a connect attempt is delivered
SpecConnect ==
    /\ Init
    /\ [][NextConnect]_vars
    /\ WF_vars(TimerCallback("BLEAPP_APP_TIMER_CONN"))

----------------------------------------------------------------------------
(* hello_client_app_timer and hello_client_interrupt_handler *)

\* ticks of the one-second timer a behaviour goes through
MaxTick == 7

\* a - b in UINT32, for counters below 2^31: a difference below zero wraps
\* to 2^32 - (b - a), which lies above every bound the handlers compare with
UINT32Above(a, b, bound) == IF a >= b THEN a - b > bound ELSE TRUE

\* hello_client.app_timer_count++, hello_client_timeout, blecen_appTimerCb
AppTimer ==
    /\ app_timer_count < MaxTick
    /\ app_timer_count' = app_timer_count + 1
    /\ ev' = Event("app_timer", 0, 0, 0, <<>>)
    /\ cm_found' = -1
    /\ cmds' = << Cmd("blecen_appTimerCb", 0, 0, <<>>) >>
    /\ ret' = 0
    /\ UNCHANGED <<app_config, handle_to_central, num_peripherals, dev_info,
                   smp_info, hostinfo, conmux, nvram, button_pushed_time,
                   pressed_at, blecen_conn, adv_ptr>>

\* bleprofile_Discoverable(NO_DISCOVERABLE), blecen_Scan(HIGH_SCAN)
StartDiscovery ==
    << Cmd("set_advertise_off", 0, 0, <<>>), Cmd("set_scan_high", 0, 0, <<>>) >>

\* blecm_SetPtrConMux(handle_to_central), bleprofile_sendNotification of the
\* 12 bytes "From Client\n"
SendSample(conn) ==
    << Cmd("send_notification", conn, HANDLE_HELLO_CLIENT_DATA_VALUE,
           <<70, 114, 111, 109, 32, 67, 108, 105, 101, 110, 116, 10>>) >>

\* else if (button_pushed_time != 0)
ReleaseArmed(pushed_time) == pushed_time # 0

\* hello_client.app_timer_count - button_pushed_time > 5
ReleaseIsLong(now, pushed_time) == UINT32Above(now, pushed_time, 5)

\* the bits of value are the buttons; bit 0 is the button the handler reads
ButtonValues == {0, 1, 2}

InterruptHandler(value) ==
    LET button_pushed == value % 2 = 1
    IN  /\ ev' = Event("interrupt", 0, 0, value, <<>>)
        /\ cm_found' = -1
        /\ ret' = 0
        /\ button_pushed_time' = IF button_pushed THEN app_timer_count
                                                  ELSE button_pushed_time
        /\ pressed_at' = IF button_pushed THEN app_timer_count ELSE NoPress
        /\ cmds' = IF button_pushed \/ ~ ReleaseArmed(button_pushed_time)
                   THEN << >>
                   ELSE IF ReleaseIsLong(app_timer_count, button_pushed_time)
                        THEN StartDiscovery
                        ELSE IF handle_to_central # 0
                             THEN SendSample(handle_to_central)
                             ELSE << >>
        /\ UNCHANGED <<app_config, handle_to_central, num_peripherals, dev_info,
                       smp_info, hostinfo, conmux, nvram, app_timer_count,
                       blecen_conn, adv_ptr>>

\* the button, the one-second timer and the link to the remote central
NextButton ==
    \/ AppTimer
    \/ \E value \in ButtonValues : InterruptHandler(value)
    \/ ConnectionUp(CentralLink, PERIPHERAL_ROLE)
    \/ ConnectionDown(CentralLink)

SpecButton == Init /\ [][NextButton]_vars

----------------------------------------------------------------------------
(* hello_client_smp_pair_result *)

PairingResults == {"LESMP_PAIRING_RESULT_BONDED", "LESMP_PAIRING_RESULT_FAILED"}

\* a handler that registers for notifications whatever the result
PairResultRegistersAlways(result) == TRUE

\* result == LESMP_PAIRING_RESULT_BONDED
PairResultRegisters(result) == result = "LESMP_PAIRING_RESULT_BONDED"

\* con_handle is the link the stack delivers the result for; the write of 1
\* to the sensor's client configuration descriptor goes out on it
SmpPairResult(con_handle, result) ==
    /\ ev' = Event("smp_pair_result", con_handle, 0, 0, << result >>)
    /\ cm_found' = -1
    /\ ret' = 0
    /\ cmds' = << Cmd("blecen_smpBondResult", con_handle, 0, << result >>) >> \o
               ( IF PairResultRegisters(result)
                 THEN << Cmd("write_req", con_handle, 0, <<1, 0>>) >>
                 ELSE << >> )
    /\ UNCHANGED <<app_config, handle_to_central, num_peripherals, dev_info,
                   smp_info, hostinfo, conmux, nvram, app_timer_count,
                   button_pushed_time, pressed_at, blecen_conn, adv_ptr>>

----------------------------------------------------------------------------
(* The application: every handler, with one remote central and one sensor *)

Next ==
    \/ \E h \in RelayLinks : ConnectionUp(h, RoleOfLink(h))
    \/ \E h \in RelayLinks : ConnectionDown(h)
    \/ \E i \in SensorSlots : \E len \in PayloadLens :
          NotificationHandler(conmux[i], Payload(len))
    \/ \E i \in SensorSlots : \E len \in PayloadLens :
          IndicationHandler(conmux[i], Payload(len))
    \/ \E handle \in WriteAttrs : \E attr \in WritePayloads : \E written \in BOOLEAN :
          /\ CentralSlots # {}
          /\ written \/ WriteIsConfiguration(handle, attr)
          /\ WriteHandler(handle, attr, written)
    \/ \E i \in MuxIndex : \E result \in PairingResults :
          /\ Occupied(i)
          /\ SmpPairResult(conmux[i], result)

Spec == Init /\ [][Next]_vars

----------------------------------------------------------------------------
(* The application restarted *)

\* the device starts again and hello_client_create runs once more: the RAM
\* (hello_client, the stack's tables, the statics) is set up as at the first
\* start, the record in the NVRAM is the one stored last
Restart ==
    /\ app_config' = app_config
    /\ handle_to_central' = 0
    /\ num_peripherals' = 0
    /\ dev_info' = [i \in MuxIndex |-> [role |-> 0]]
    /\ smp_info' = [i \in MuxIndex |-> [smpRole |-> ZeroedSmpRole]]
    /\ hostinfo' = ZeroHostInfo
    /\ conmux' = [i \in MuxIndex |-> NoHandle]
    /\ nvram' = nvram
    /\ app_timer_count' = 0
    /\ button_pushed_time' = 0
    /\ pressed_at' = NoPress
    /\ blecen_conn' = "NO_CONN"
    /\ adv_ptr' = NoPtr
    /\ ev' = NoEvent
    /\ cm_found' = -1
    /\ cmds' = << Cmd("set_scan_off", 0, 0, <<>>),
                  Cmd("set_advertise_discoverable", 0, 0, <<>>) >>
    /\ ret' = 0

NextRestart ==
    \/ Next
    \/ Restart

SpecRestart == Init /\ [][NextRestart]_vars

----------------------------------------------------------------------------
(* Properties *)

IsConnectionUp(e) == e.type = "connection_up"
IsConnectionDown(e) == e.type = "connection_down"
IsRelay(e) == e.type \in {"notification_received", "indication_received"}

Ops(seq) == {seq[k].op : k \in 1 .. Len(seq)}

Disconnected(h) == << Cmd("disconnect", h, 0, <<>>) >>

\* what a handler that "changes nothing" leaves alone
BookkeepingUnchanged ==
    UNCHANGED <<app_config, handle_to_central, num_peripherals, dev_info,
                smp_info, hostinfo, conmux, nvram, app_timer_count,
                button_pushed_time, pressed_at>>

\* C1: for every sequence of connection_up / connection_down events the
\* counter num_peripherals stays in 0..HELLO_CLIENT_MAX_PERIPHERALS.
C1_CounterInRange == num_peripherals \in 0 .. HELLO_CLIENT_MAX_PERIPHERALS

\* C2: after each connection handler num_peripherals equals the number of
\* occupied slots that hold an outgoing sensor link.
C2_CounterCountsSensors == num_peripherals = Cardinality(SensorSlots)

\* C3: handle_to_central is non-zero iff exactly one occupied slot holds a
\* link to a remote central, and then it is that slot's connection handle.
C3_CentralHandleTracksSlot ==
    /\ handle_to_central # 0 <=> Cardinality(CentralSlots) = 1
    /\ handle_to_central # 0 =>
          \E i \in CentralSlots : conmux[i] = handle_to_central

\* C4: the table never holds two slots with a link to a remote central.
C4_OneCentralSlot == Cardinality(CentralSlots) <= 1

\* C5: each connection handle maps to at most one occupied slot.
C5_HandleMapsToOneSlot ==
    \A i, j \in MuxIndex :
        (Occupied(i) /\ Occupied(j) /\ conmux[i] = conmux[j]) => i = j

\* C5 witness: connection_up came for a handle that had a slot, and the
\* handle has exactly one slot after it.
C5_Witness ==
    /\ IsConnectionUp(ev)
    /\ cm_found >= 0
    /\ Cardinality({i \in MuxIndex : conmux[i] = ev.handle}) = 1
    /\ Cardinality({i \in MuxIndex : Occupied(i)}) >= 2

\* C6 as stated: whenever connection_up arrives while no slot is free, the
\* handler issues exactly one disconnect and changes nothing else.
C6_FullThenDisconnect ==
    [][ (IsConnectionUp(ev') /\ blecm_FindFreeConMux(conmux) < 0)
          => (cmds' = Disconnected(ev'.handle) /\ BookkeepingUnchanged) ]_vars

\* C6 amended: whenever connection_up arrives for a handle that has no slot
\* while no slot is free, the handler issues exactly one disconnect and
\* changes nothing else.
C6_FullFreshThenDisconnect ==
    [][ (/\ IsConnectionUp(ev')
         /\ blecm_FindFreeConMux(conmux) < 0
         /\ blecm_FindConMux(conmux, ev'.handle) < 0)
          => (cmds' = Disconnected(ev'.handle) /\ BookkeepingUnchanged) ]_vars

\* C6 witness: a connection_up for a handle without a slot was answered
\* with the disconnect while all slots are taken.
C6_Witness ==
    /\ IsConnectionUp(ev)
    /\ cm_found < 0
    /\ blecm_FindFreeConMux(conmux) < 0
    /\ blecm_FindConMux(conmux, ev.handle) < 0
    /\ cmds = Disconnected(ev.handle)

\* C7: a connection_up from a remote central arriving while
\* HELLO_CLIENT_MAX_PERIPHERALS sensor links are open, and a sensor's
\* connection_up that makes it the 4th beside one remote-central link, are
\* not answered with the disconnect of a full table.
C7_CentralBesideAllSensors ==
    (IsConnectionUp(ev) /\ cm_found < 0 /\ "disconnect" \in Ops(cmds)) =>
        /\ ~ (/\ ev.role = PERIPHERAL_ROLE
              /\ Cardinality(CentralSlots) = 0
              /\ Cardinality(SensorSlots) = HELLO_CLIENT_MAX_PERIPHERALS)
        /\ ~ (/\ ev.role = CENTRAL_ROLE
              /\ Cardinality(CentralSlots) = 1
              /\ Cardinality(SensorSlots) = HELLO_CLIENT_MAX_PERIPHERALS - 1)

\* C8: a connection_down for a handle that has no slot changes nothing and
\* issues no command, whatever the erase-key flag.
C8_UnknownDownIsNoOp ==
    [][ (IsConnectionDown(ev') /\ blecm_FindConMux(conmux, ev'.handle) < 0)
          => (cmds' = << >> /\ BookkeepingUnchanged) ]_vars

\* C8 witness: with the erase-key flag set, a connection_down was handled
\* for a handle that has no slot while another link is still open.
C8_Witness ==
    /\ IsConnectionDown(ev)
    /\ cm_found < 0
    /\ BitSet(app_config, SMP_ERASE_KEY)
    /\ \E i \in MuxIndex : Occupied(i)
    /\ cmds = << >>

\* C9: with handle_to_central unset, a notification or an indication from a
\* sensor makes the handler issue no send_notification and no send_indication.
C9_NoRelayWithoutCentral ==
    (IsRelay(ev) /\ handle_to_central = 0) =>
        Ops(cmds) \cap {"send_notification", "send_indication"} = {}

\* C10: with the notify bit set and a link to the central, relaying a payload
\* of length L issues exactly one send_notification, on the central's link
\* and the data characteristic, carrying the first min(L, 20) bytes.
C10_NotifyTruncated ==
    (/\ IsRelay(ev)
     /\ BitSet(hostinfo.characteristic_client_configuration, CCC_NOTIFICATION)
     /\ handle_to_central # 0)
      => SelectSeq(cmds, LAMBDA c : c.op \in {"send_notification", "send_indication"})
           = << Cmd("send_notification", handle_to_central,
                    HANDLE_HELLO_CLIENT_DATA_VALUE,
                    SubSeq(ev.data, 1, Min(Len(ev.data), 20))) >>

\* C10 witness: a 25-byte payload was relayed to a live central link as a
\* 20-byte notification.
C10_Witness ==
    /\ IsRelay(ev)
    /\ Len(ev.data) = 25
    /\ BitSet(hostinfo.characteristic_client_configuration, CCC_NOTIFICATION)
    /\ \E i \in CentralSlots : conmux[i] = handle_to_central
    /\ Len(cmds) >= 1
    /\ cmds[1].op = "send_notification"
    /\ Len(cmds[1].data) = 20

\* the send_notification / send_indication commands of a handler, in order
RelayCmds(seq) ==
    SelectSeq(seq, LAMBDA c : c.op \in {"send_notification", "send_indication"})

\* C11: the relay picks its output from the stored configuration alone: with
\* the notify bit set it issues one send_notification and no send_indication
\* (also when the indicate bit is set too); otherwise with the indicate bit
\* set it issues one send_indication of the same truncated payload; with
\* neither bit set it issues no relay command.
C11_RelayFollowsConfiguration ==
    IsRelay(ev) =>
        RelayCmds(cmds) =
            IF hostinfo.characteristic_client_configuration % 2 = 1
            THEN << Cmd("send_notification", handle_to_central,
                        HANDLE_HELLO_CLIENT_DATA_VALUE,
                        SubSeq(ev.data, 1, Min(Len(ev.data), 20))) >>
            ELSE IF (hostinfo.characteristic_client_configuration \div 2) % 2 = 1
                 THEN << Cmd("send_indication", handle_to_central,
                             HANDLE_HELLO_CLIENT_DATA_VALUE,
                             SubSeq(ev.data, 1, Min(Len(ev.data), 20))) >>
                 ELSE << >>

\* C11 witness: with both bits set a 25-byte payload was relayed as one
\* notification of 20 bytes.
C11_Witness ==
    /\ IsRelay(ev)
    /\ hostinfo.characteristic_client_configuration = 3
    /\ Len(ev.data) = 25
    /\ Len(RelayCmds(cmds)) = 1
    /\ RelayCmds(cmds)[1].op = "send_notification"

IsWrite(e) == e.type = "write_received"

\* the two configuration bytes at the end of a stored HOSTINFO record
ConfigurationBytes(record) == SubSeq(record, Len(record) - 1, Len(record))

\* what a write of two bytes to the configuration descriptor does in memory
\* and towards the storage: accepted, the configuration is b0 + 256 * b1, and
\* one persist command carries a record whose configuration bytes are the
\* payload
ConfigurationWriteDone ==
    /\ ret' = 0
    /\ hostinfo'.characteristic_client_configuration = ev'.data[1] + 256 * ev'.data[2]
    /\ Len(cmds') = 1
    /\ cmds'[1].op = "persist"
    /\ cmds'[1].attr = NVRAM_ID_HOST_LIST
    /\ ConfigurationBytes(cmds'[1].data) = ev'.data

\* C12 as stated: every write of two bytes [b0, b1] to the configuration
\* descriptor is accepted, sets the configuration to b0 + 256 * b1, issues
\* one persist command whose configuration bytes are the payload, and the
\* record then loaded from the storage has exactly those bytes.
C12_WriteRoundTrip ==
    [][ (/\ IsWrite(ev')
         /\ ev'.attr = HANDLE_HELLO_CLIENT_CLIENT_CONFIGURATION_DESCRIPTOR
         /\ Len(ev'.data) = 2)
          => (/\ ConfigurationWriteDone
              /\ nvram' # << >>
              /\ ConfigurationBytes(nvram') = ev'.data) ]_vars

\* C12 amended: the same, but the record loaded afterwards has those bytes
\* when the storage took the write, and is the record stored before when it
\* did not.
C12_WriteRoundTripWhenStored ==
    [][ (/\ IsWrite(ev')
         /\ ev'.attr = HANDLE_HELLO_CLIENT_CLIENT_CONFIGURATION_DESCRIPTOR
         /\ Len(ev'.data) = 2)
          => (/\ ConfigurationWriteDone
              /\ \/ nvram' # << >> /\ ConfigurationBytes(nvram') = ev'.data
                 \/ nvram' = nvram) ]_vars

\* C12 witness: the payload [0, 1] was written to the descriptor with a link
\* to the central open; the configuration is 256 and the stored record ends
\* with the bytes 0, 1.
C12_Witness ==
    /\ IsWrite(ev)
    /\ ev.attr = HANDLE_HELLO_CLIENT_CLIENT_CONFIGURATION_DESCRIPTOR
    /\ ev.data = <<0, 1>>
    /\ ret = 0
    /\ hostinfo.characteristic_client_configuration = 256
    /\ nvram # << >>
    /\ ConfigurationBytes(nvram) = <<0, 1>>

\* C13: a write to the configuration descriptor whose length is not 2 is
\* rejected with 0x80, leaves the configuration as it was and persists
\* nothing.
C13_ConfigurationWriteOfWrongLength ==
    [][ (/\ IsWrite(ev')
         /\ ev'.attr = HANDLE_HELLO_CLIENT_CLIENT_CONFIGURATION_DESCRIPTOR
         /\ Len(ev'.data) # 2)
          => (/\ ret' = 128
              /\ cmds' = << >>
              /\ UNCHANGED <<hostinfo, nvram>>) ]_vars

\* C13 witness: a 3-byte write to the descriptor was rejected while the
\* configuration set by an earlier write is in place.
C13_Witness ==
    /\ IsWrite(ev)
    /\ ev.attr = HANDLE_HELLO_CLIENT_CLIENT_CONFIGURATION_DESCRIPTOR
    /\ Len(ev.data) = 3
    /\ ret = 128
    /\ cmds = << >>
    /\ hostinfo.characteristic_client_configuration = 2

\* C14: a write to the data value is answered with 0 whatever its length and
\* content, a write to an attribute that is neither the data value nor the
\* configuration descriptor with 0x80; both leave the configuration, the
\* slots and the counters alone and persist nothing.
C14_OtherWrites ==
    [][ (/\ IsWrite(ev')
         /\ ev'.attr # HANDLE_HELLO_CLIENT_CLIENT_CONFIGURATION_DESCRIPTOR)
          => (/\ ret' = IF ev'.attr = HANDLE_HELLO_CLIENT_DATA_VALUE THEN 0 ELSE 128
              /\ cmds' = << >>
              /\ BookkeepingUnchanged) ]_vars

\* C14 witness: a write to the service declaration was rejected with 0x80.
C14_Witness ==
    /\ IsWrite(ev)
    /\ ev.attr = HANDLE_HELLO_CLIENT_SERVICE_UUID
    /\ ev.data = <<1, 0>>
    /\ ret = 128
    /\ cmds = << >>

IsAdvReport(e) == e.type = "advertisement_report"

(* The field list of a report as the advertiser laid it out: fields of a   *)
(* length byte and that many bytes, one behind the other, in the declared   *)
(* length of the data.                                                      *)
RECURSIVE AdvFieldOffsets(_, _, _)
AdvFieldOffsets(data, dataLen, p) ==
    IF p >= dataLen
    THEN {}
    ELSE {p} \cup AdvFieldOffsets(data, dataLen, p + data[p + 1] + 1)

RECURSIVE AdvFieldsEnd(_, _, _)
AdvFieldsEnd(data, dataLen, p) ==
    IF p >= dataLen THEN p ELSE AdvFieldsEnd(data, dataLen, p + data[p + 1] + 1)

\* the declared length is within the maximum and the fields fill it exactly
AdvWellFormed(e) ==
    /\ e.attr <= 31
    /\ AdvFieldsEnd(e.data, e.attr, 0) = e.attr

AdvFields(e) ==
    { SubSeq(e.data, p + 1, p + 1 + e.data[p + 1]) :
        p \in AdvFieldOffsets(e.data, e.attr, 0) }

IsUuid128Field(f) == Len(f) = 18 /\ f[1] = 17 /\ f[2] = 7

ConnectCmds(seq) == SelectSeq(seq, LAMBDA c : c.op = "connect")
ScanCmds(seq) ==
    SelectSeq(seq, LAMBDA c : c.op \in {"set_scan_off", "set_scan_low", "set_scan_high"})

\* C15: a report of a declared length within the maximum whose field list
\* has the field [0x11, ADV_SERVICE_UUID128_COMP, hello_service] makes the
\* handler issue exactly one connect, to the peer of the report, and one
\* set_scan(Off); a report whose 128-bit UUID fields all carry another value
\* makes it issue no connect and no scan command.
C15_ConnectOnServiceMatch ==
    (IsAdvReport(ev) /\ AdvWellFormed(ev)) =>
        /\ (<<17, 7>> \o hello_service) \in AdvFields(ev) =>
              /\ ConnectCmds(cmds) = << Cmd("connect", ev.handle, 0, <<>>) >>
              /\ ScanCmds(cmds) = << Cmd("set_scan_off", 0, 0, <<>>) >>
        /\ (/\ \E f \in AdvFields(ev) : IsUuid128Field(f)
            /\ \A f \in AdvFields(ev) :
                  IsUuid128Field(f) => SubSeq(f, 3, 18) # hello_service) =>
              /\ ConnectCmds(cmds) = << >>
              /\ ScanCmds(cmds) = << >>

\* C15 witness: a report of peer 2 with the flags and the service field was
\* answered with the connect to peer 2 while a sensor link is open.
C15_Witness ==
    /\ IsAdvReport(ev)
    /\ ev.handle = 2
    /\ ev.attr = 21
    /\ SubSeq(ev.data, 4, 21) = <<17, 7>> \o hello_service
    /\ ConnectCmds(cmds) = << Cmd("connect", 2, 0, <<>>) >>
    /\ SensorSlots # {}

\* the interrupt of a release edge: bit 0 of the value is clear
IsRelease(e) == e.type = "interrupt" /\ e.attr % 2 = 0

\* what the release of a press held for held ticks is answered with
Classified(held) ==
    IF held > 5
    THEN << Cmd("set_advertise_off", 0, 0, <<>>), Cmd("set_scan_high", 0, 0, <<>>) >>
    ELSE IF CentralSlots # {}
         THEN << Cmd("send_notification", conmux[CHOOSE i \in CentralSlots : TRUE],
                     HANDLE_HELLO_CLIENT_DATA_VALUE,
                     <<70, 114, 111, 109, 32, 67, 108, 105, 101, 110, 116, 10>>) >>
         ELSE << >>

\* C16: the release that follows a press, held = release tick - press tick:
\* held > 5 gives set_advertise(Off) then set_scan(High) with or without a
\* link to the central; held <= 5 gives one notification on the central's
\* link when there is one and no command when there is none.
C16_ReleaseClassifiedByHold ==
    [][ (IsRelease(ev') /\ pressed_at # NoPress)
          => cmds' = Classified(app_timer_count - pressed_at) ]_vars

\* C17: a release before any press was recorded is answered with no
\* command, and the release of a press made at tick 0 is classified by its
\* hold duration like any other.
C17_PressAtTickZero ==
    [][ IsRelease(ev')
          => /\ (pressed_at = NoPress /\ button_pushed_time = 0) => cmds' = << >>
             /\ pressed_at = 0 => cmds' = Classified(app_timer_count) ]_vars

IsCreate(e) == e.type = "create"

\* C18: the stored configuration survives a restart: once a write to the
\* descriptor has been stored and hello_client_create has run again, the
\* configuration in memory is the one of the stored record.
C18_ConfigurationSurvivesRestart ==
    (IsCreate(ev) /\ nvram # << >>) =>
        hostinfo.characteristic_client_configuration = nvram[7] + 256 * nvram[8]

\* the handler changed the slots: a connection_up that was accepted, or a
\* connection_down of a handle that had a slot
SlotsChanged ==
    \/ IsConnectionUp(ev) /\ "disconnect" \notin Ops(cmds)
    \/ IsConnectionDown(ev) /\ cm_found >= 0

AdvertiseOps == {"set_advertise_discoverable", "set_advertise_off"}

\* C19: every accepted connection_up and every connection_down of a known
\* handle, of either role, that leaves fewer than HELLO_CLIENT_MAX_PERIPHERALS
\* sensor links open issues set_scan(Low) before it returns.
C19_LowScanBelowMaximum ==
    (SlotsChanged /\ Cardinality(SensorSlots) < HELLO_CLIENT_MAX_PERIPHERALS)
        => "set_scan_low" \in Ops(cmds)

\* C20 as stated: the connection_down of a sensor link, handled while
\* handle_to_central is unset, issues set_advertise(Discoverable).
C20_SensorDownAdvertises ==
    (/\ IsConnectionDown(ev)
     /\ cm_found >= 0
     /\ RoleOfLink(ev.handle) = CENTRAL_ROLE
     /\ handle_to_central = 0)
      => "set_advertise_discoverable" \in Ops(cmds)

\* C20 amended: set_advertise(Discoverable) is issued by every accepted
\* connection_up that leaves handle_to_central unset and num_peripherals
\* below HELLO_CLIENT_MAX_PERIPHERALS; connection_down issues no
\* set_advertise command, for a sensor link or any other.
C20_UpAdvertisesDownDoesNot ==
    /\ (/\ IsConnectionUp(ev)
        /\ "disconnect" \notin Ops(cmds)
        /\ handle_to_central = 0
        /\ num_peripherals < HELLO_CLIENT_MAX_PERIPHERALS)
         => "set_advertise_discoverable" \in Ops(cmds)
    /\ IsConnectionDown(ev) => Ops(cmds) \cap AdvertiseOps = {}

\* C20 witness: the connection_down of a sensor link that had a slot was
\* handled with handle_to_central unset and another sensor link still open;
\* it reset the client, told the central role and set the low scan.
C20_Witness ==
    /\ IsConnectionDown(ev)
    /\ cm_found >= 0
    /\ RoleOfLink(ev.handle) = CENTRAL_ROLE
    /\ handle_to_central = 0
    /\ SensorSlots # {}
    /\ cmds = << Cmd("client_handle_reset", 0, 0, <<>>),
                 Cmd("blecen_connDown", 0, 0, <<>>),
                 Cmd("set_scan_low", 0, 0, <<>>) >>

IsTimerConn(e) == e.type = "timer_callback" /\ e.data = << "BLEAPP_APP_TIMER_CONN" >>

\* C21: the connection timeout that fires while a connect is pending cancels
\* the connect and issues set_scan(Low) and set_advertise(Discoverable); one
\* that fires with nothing pending issues no command and changes no state;
\* with the timeout delivered, every connect is followed by the connection_up
\* of a sensor link or by that fallback.
C21_ConnectNeverStaysPending ==
    /\ [][ IsTimerConn(ev') =>
             IF blecen_conn \in {"HIGH_CONN", "LOW_CONN"}
             THEN /\ cmds' = << Cmd("cancel_connect", 0, 0, <<>>),
                                Cmd("set_scan_low", 0, 0, <<>>),
                                Cmd("set_advertise_discoverable", 0, 0, <<>>) >>
                  /\ blecen_conn' = "NO_CONN"
                  /\ BookkeepingUnchanged
             ELSE /\ cmds' = << >>
                  /\ UNCHANGED blecen_conn
                  /\ BookkeepingUnchanged ]_vars
    /\ ("connect" \in Ops(cmds)) ~>
          \/ IsConnectionUp(ev) /\ ev.role = CENTRAL_ROLE
          \/ IsTimerConn(ev) /\ "cancel_connect" \in Ops(cmds)

\* C21 witness: the timeout fired while the connect to a peer was pending
\* and the link to the remote central is open; the connect was cancelled.
C21_Witness ==
    /\ IsTimerConn(ev)
    /\ "cancel_connect" \in Ops(cmds)
    /\ blecen_conn = "NO_CONN"
    /\ CentralSlots # {}

\* C22: a report whose declared length is above the maximum is discarded: no
\* connect, scan or advertise command, no change of state, also when its
\* bytes hold the matching service field.
C22_OversizeReportDiscarded ==
    [][ (IsAdvReport(ev') /\ ev'.attr > 31)
          => (/\ cmds' = << >>
              /\ BookkeepingUnchanged
              /\ UNCHANGED blecen_conn) ]_vars

\* C22 witness: a report of declared length 32 that starts with the flags
\* and the matching service field was handled with no command while a
\* link to the remote central is open.
C22_Witness ==
    /\ IsAdvReport(ev)
    /\ ev.attr = 32
    /\ SubSeq(ev.data, 4, 21) = <<17, 7>> \o hello_service
    /\ cmds = << >>
    /\ blecen_conn = "NO_CONN"
    /\ CentralSlots # {}

SecurityStartCmds(seq) ==
    SelectSeq(seq, LAMBDA c : c.op \in {"start_pairing", "request_encryption"})

\* C23: an accepted connection_up of an outgoing sensor link, with encryption
\* required, sets the slot's SMP role to initiator and issues exactly one
\* security-start command and no write of the client configuration; an
\* accepted connection_up of the link to a remote central sets the role to
\* responder and issues no security-start command.
C23_SmpRoleFollowsLinkRole ==
    (IsConnectionUp(ev) /\ "disconnect" \notin Ops(cmds)) =>
        /\ \E i \in MuxIndex : conmux[i] = ev.handle
        /\ \A i \in MuxIndex : conmux[i] = ev.handle =>
              IF ev.role = CENTRAL_ROLE
              THEN /\ smp_info[i].smpRole = LESMP_ROLE_INITIATOR
                   /\ SecurityStartCmds(cmds) = << Cmd("start_pairing", ev.handle, 0, <<>>) >>
                   /\ "write_req" \notin Ops(cmds)
              ELSE /\ smp_info[i].smpRole = LESMP_ROLE_RESPONDERS
                   /\ SecurityStartCmds(cmds) = << >>

\* C23 witness: a sensor's connection_up was accepted beside the link to
\* the remote central and pairing was started on it.
C23_Witness ==
    /\ IsConnectionUp(ev)
    /\ ev.role = CENTRAL_ROLE
    /\ CentralSlots # {}
    /\ \E i \in SensorSlots :
          conmux[i] = ev.handle /\ smp_info[i].smpRole = LESMP_ROLE_INITIATOR
    /\ "start_pairing" \in Ops(cmds)

IsPairResult(e) == e.type = "smp_pair_result"

WriteReqCmds(seq) == SelectSeq(seq, LAMBDA c : c.op = "write_req")

C25_SlotZeroedBondsKeptByDefault ==
    /\ [][ (IsConnectionDown(ev') /\ blecm_FindConMux(conmux, ev'.handle) >= 0) =>
             LET i == blecm_FindConMux(conmux, ev'.handle)
             IN  /\ dev_info'[i] = [role |-> 0]
                 /\ smp_info'[i] = [smpRole |-> ZeroedSmpRole]
                 /\ conmux'[i] = NoHandle
                 /\ blecm_FindConMux(conmux', ev'.handle) < 0
                 /\ "erase_all_bonds" \in Ops(cmds') <=>
                        (app_config \div SMP_ERASE_KEY) % 2 = 1 ]_vars
    /\ [](app_config = CONNECT_HELLO_SENSOR + SMP_PAIRING
            => "erase_all_bonds" \notin Ops(cmds))

\* C25 witness: with the erase-key flag set the link to the remote central
\* went down while a sensor link is open; its slot is free and the bonds
\* were erased.
C25_Witness ==
    /\ IsConnectionDown(ev)
    /\ cm_found >= 0
    /\ ev.handle = CentralLink
    /\ ~ Occupied(cm_found)
    /\ dev_info[cm_found] = [role |-> 0]
    /\ SensorSlots # {}
    /\ BitSet(app_config, SMP_ERASE_KEY)
    /\ "erase_all_bonds" \in Ops(cmds)

ConfirmationCmds(seq) == SelectSeq(seq, LAMBDA c : c.op = "send_confirmation")

\* C26: every indication from a sensor is answered with exactly one
\* send_confirmation to that sensor, issued after the relay, whether the
\* payload went on as a notification, as an indication or not at all; a
\* notification from a sensor is never answered with a send_confirmation.
C26_IndicationConfirmedToSensor ==
    /\ ev.type = "indication_received" =>
          /\ ConfirmationCmds(cmds) = << Cmd("send_confirmation", ev.handle, 0, <<>>) >>
          /\ cmds[Len(cmds)].op = "send_confirmation"
    /\ ev.type = "notification_received" => ConfirmationCmds(cmds) = << >>

\* the event is a write of two bytes to the client configuration descriptor
IsConfigurationWrite(e) ==
    /\ IsWrite(e)
    /\ e.attr = HANDLE_HELLO_CLIENT_CLIENT_CONFIGURATION_DESCRIPTOR
    /\ Len(e.data) = 2

PersistCmds(seq) == SelectSeq(seq, LAMBDA c : c.op = "persist")

\* the record the storage holds is not the configuration in memory
StorageStale(record, info) ==
    record # info.bdaddr \o << info.characteristic_client_configuration % 256,
                              info.characteristic_client_configuration \div 256 >>

\* C27: when the storage does not take the record of a valid configuration
\* write, the write is accepted all the same with the new value in memory
\* and one persist command, not a second one; the value in memory stays
\* until another configuration write; and the next valid configuration
\* write issues a persist command again.
C27_StorageFailureKeepsMemory ==
    /\ [][ (IsConfigurationWrite(ev') /\ StorageStale(nvram', hostinfo')) =>
             /\ ret' = 0
             /\ hostinfo'.characteristic_client_configuration
                   = ev'.data[1] + 256 * ev'.data[2]
             /\ Len(PersistCmds(cmds')) = 1 ]_vars
    /\ [][ hostinfo' # hostinfo => IsConfigurationWrite(ev') ]_vars
    /\ [][ (IsConfigurationWrite(ev') /\ StorageStale(nvram, hostinfo)) =>
             /\ Len(PersistCmds(cmds')) = 1
             /\ ~ StorageStale(PersistCmds(cmds')[1].data, hostinfo') ]_vars

\* C27 witness: a relay took place with the notify bit in memory while the
\* storage still holds the record of an earlier write, the later write not
\* having been stored.
C27_Witness ==
    /\ IsRelay(ev)
    /\ hostinfo.characteristic_client_configuration = 1
    /\ nvram # << >>
    /\ StorageStale(nvram, hostinfo)
    /\ "send_notification" \in Ops(cmds)

OccupiedIn(mux) == {i \in MuxIndex : mux[i] # NoHandle}

\* C28: a connection_up for a handle that has a slot already, of the same
\* role, leaves the number of occupied slots and num_peripherals as they
\* were after the first connection_up of that handle.
C28_RepeatedUpIsIdempotent ==
    [][ (/\ IsConnectionUp(ev')
         /\ blecm_FindConMux(conmux, ev'.handle) >= 0
         /\ dev_info[blecm_FindConMux(conmux, ev'.handle)].role = ev'.role)
          => (/\ Cardinality(OccupiedIn(conmux')) = Cardinality(OccupiedIn(conmux))
              /\ num_peripherals' = num_peripherals) ]_vars

\* C29: the parse loop ends for every report of a declared length
\* 0 .. HCIULP_MAX_DATA_LENGTH, whatever the length bytes are: each iteration
\* that stays in the loop moves the read position forward to an offset below
\* the declared length, the position is inside evt->data whenever a field is
\* read, and the loop is left only with a match or at the end of the data.
C29_ParseLoopTerminates ==
    /\ [](adv_ptr # NoPtr => adv_ptr >= 0 /\ adv_ptr < HCIULP_MAX_DATA_LENGTH)
    /\ [][ (adv_ptr # NoPtr /\ adv_ptr' # NoPtr)
             => (adv_ptr' > adv_ptr /\ adv_ptr' < ev.attr) ]_vars
    /\ [][ (adv_ptr # NoPtr /\ adv_ptr' = NoPtr)
             => (\/ "connect" \in Ops(cmds') /\ ~("connect" \in Ops(cmds))
                 \/ AdvAtEnd(adv_ptr + ev.data[adv_ptr + 1] + 1, ev.attr)) ]_vars
    /\ (adv_ptr # NoPtr) ~> (adv_ptr = NoPtr)

\* the loop is behind a field of length 0 and at a field that runs past the
\* declared length
C29_Witness ==
    /\ ev.type = "advertisement_report"
    /\ adv_ptr = 1
    /\ ev.data[1] = 0
    /\ ev.attr > 1
    /\ ev.data[2] = 255
    /\ adv_ptr + ev.data[adv_ptr + 1] + 1 > ev.attr

\* the field [0x11, ADV_SERVICE_UUID128_COMP, hello_service] is one of the
\* fields of the report and ends within the declared length
AdvServiceFieldInside(e) ==
    /\ e.attr <= HCIULP_MAX_DATA_LENGTH
    /\ \E p \in AdvFieldOffsets(e.data, e.attr, 0) :
          /\ p + 18 <= e.attr
          /\ SubSeq(e.data, p + 1, p + 18) = HelloField

\* C30: a report without a matching service field that lies entirely inside
\* its declared data length (a declared length of 0, a matching field that
\* runs past the declared length) makes the handler issue no connect, no
\* set_scan(Off) and no advertising command.
C30_ConnectOnlyForFieldInside ==
    (IsAdvReport(ev) /\ ~AdvServiceFieldInside(ev)) =>
        Ops(cmds) \cap {"connect", "set_scan_off", "set_advertise_off",
                        "set_advertise_discoverable"} = {}

\* C31: a release edge without a press edge since the previous release (or
\* since the start) emits no StartDiscovery and no SendSample: the press a
\* release has classified is not classified again.
C31_ReleaseConsumesPress ==
    [][ (/\ ev'.type = "interrupt"
         /\ ev'.attr % 2 = 0
         /\ pressed_at = NoPress)
          => cmds' = << >> ]_vars

====
